---- MODULE Spec2Model ----
(***************************************************************************)
(* A model of the record normalisation / deduplication pipeline            *)
(* (src/WebScraper/wrangling.py, class JSONCombiner) and of the JSON       *)
(* repair, text cleaning and bag-of-words functions                        *)
(* (src/Preprocessor/data_preprocessor.py, class DataPreprocessor).        *)
(*                                                                         *)
(* Strings are sequences of tokens.  An HTML string is a sequence of       *)
(* text characters, start tags (with their attribute names) and end tags;  *)
(* a JSON or code string is a sequence of characters.  BeautifulSoup's     *)
(* html.parser tree builder is modelled by its tag stack; md5 is modelled  *)
(* as an injective tagging of the digested text (no collisions).           *)
(*                                                                         *)
(* Specifications:                                                         *)
(*   SpecHtml      clean_html applied to a string, and to its own output   *)
(*   SpecVariant   hash_entry on a record and on reformatted copies of it  *)
(*   SpecCombiner  combine_files / process_file over files on disk         *)
(*   SpecJson      fix_json_structure followed by json.loads               *)
(*   SpecCode      sanitize_code_block followed by JSON string decoding    *)
(*   SpecPreprocess  DataPreprocessor.process_file from the parsed array   *)
(*   SpecNormalize   preprocess_code on one code string                    *)
(*   SpecSplit       extract_code_and_text on one HTML fragment            *)
(*   SpecUnescape    unescape_json on one string                           *)
(*   SpecRecall      combine_files called again on the same JSONCombiner   *)
(***************************************************************************)
EXTENDS Naturals, Integers, Sequences, FiniteSets, TLC

VARIABLES
    pc,                 \* position of the running operation
    \* ---- HtmlNormalizer runs (clean_html applied once and twice)
    html_content, cleaned_html, recleaned,
    \* ---- a record, a reformatted copy of it and the number of edits made (hash_entry)
    entry0, entry, edits,
    \* ---- JSONCombiner: the files on disk, the object's fields, combine_files' locals
    files, duplicate_indices, unique_entries, hash_set,
    file_paths, fi, processed_entries, total_entries, original_counts,
    stats, log,
    \* ---- DataPreprocessor.fix_json_structure
    content, fixed,
    \* ---- DataPreprocessor.sanitize_code_block
    code, sanitized,
    \* ---- JSONCombiner: the number of combine_files calls made on the object
    calls,
    \* ---- DataPreprocessor.unescape_json and preprocess_code on one string
    escaped_text, unescaped, raw_code, processed_code,
    \* ---- DataPreprocessor.extract_code_and_text on one HTML fragment
    fragment, code_blocks, text_blocks,
    \* ---- DataPreprocessor.process_file: the parsed array, load_json_safely's list,
    \* the object's max_vocab_size, the fitted vocabularies and the encoded entries
    json_data, validated_data, di, max_vocab_size, processed_data,
    code_vocabulary, text_vocabulary, bag_of_words_dataset

htmlVars == <<html_content, cleaned_html, recleaned>>
variantVars == <<entry0, entry, edits>>
combinerVars == <<files, duplicate_indices, unique_entries, hash_set, file_paths, fi,
                  processed_entries, total_entries, original_counts, stats, log, calls>>
jsonVars == <<content, fixed>>
codeVars == <<code, sanitized>>
escapeVars == <<escaped_text, unescaped, raw_code, processed_code>>
splitVars == <<fragment, code_blocks, text_blocks>>
bowVars == <<json_data, validated_data, di, max_vocab_size, processed_data,
             code_vocabulary, text_vocabulary, bag_of_words_dataset>>
prepVars == <<escapeVars, splitVars, bowVars>>
vars == <<pc, htmlVars, variantVars, combinerVars, jsonVars, codeVars, prepVars>>

(***************************************************************************)
(* Bounds of the model.                                                    *)
(***************************************************************************)
MaxHtmlLen == 4
MaxEdits == 2
MaxAnswers == 2
MaxEntries == 2
MaxFiles == 2
MaxJsonLen == 4
MaxCodeLen == 4
MaxData == 2

SeqsUpTo(S, n) == UNION {[1..k -> S] : k \in 0..n}

Last(s) == s[Len(s)]
Front(s) == SubSeq(s, 1, Len(s) - 1)

(***************************************************************************)
(* HTML strings.                                                           *)
(***************************************************************************)
Txt(c) == [t |-> "text", name |-> c, attrs |-> {}]
Open(n, as) == [t |-> "open", name |-> n, attrs |-> as]
Close(n) == [t |-> "close", name |-> n, attrs |-> {}]

NoticeClass == "class=js-post-notice"
Whitespace == {" ", "\n", "\t", "\r"}
VoidTags == {"br"}

IsWs(tok) == tok.t = "text" /\ tok.name \in Whitespace

\* re.sub(r'\s+', ' ', s): every maximal run of whitespace characters becomes one space
RECURSIVE collapse_ws(_)
collapse_ws(s) ==
    IF s = <<>> THEN <<>>
    ELSE IF IsWs(s[1])
         THEN IF Len(s) > 1 /\ IsWs(s[2]) THEN collapse_ws(Tail(s))
              ELSE <<Txt(" ")>> \o collapse_ws(Tail(s))
         ELSE <<s[1]>> \o collapse_ws(Tail(s))

RECURSIVE lstrip(_)
lstrip(s) == IF s # <<>> /\ IsWs(s[1]) THEN lstrip(Tail(s)) ELSE s

RECURSIVE rstrip(_)
rstrip(s) == IF s # <<>> /\ IsWs(Last(s)) THEN rstrip(Front(s)) ELSE s

\* str.strip()
strip(s) == rstrip(lstrip(s))

(***************************************************************************)
(* BeautifulSoup(html, 'html.parser'): the tree builder keeps a stack of   *)
(* open tags; a start tag pushes, an end tag pops to the most recent open  *)
(* tag of that name or is ignored when none is open, a void element is     *)
(* closed at once, and the end of the input closes what is still open.     *)
(***************************************************************************)
TextNode(c) == [t |-> "text", name |-> c, attrs |-> {}, kids |-> <<>>]
TagNode(n, as, ks) == [t |-> "tag", name |-> n, attrs |-> as, kids |-> ks]
Root == TagNode("[document]", {}, <<>>)

object_was_parsed(stack, node) ==
    [stack EXCEPT ![Len(stack)].kids = Append(@, node)]

popTag(stack) == object_was_parsed(Front(stack), Last(stack))

RECURSIVE popToTag(_, _)
popToTag(stack, name) ==
    IF ~ \E k \in 2..Len(stack) : stack[k].name = name THEN stack
    ELSE IF Last(stack).name = name THEN popTag(stack)
    ELSE popToTag(popTag(stack), name)

handle_token(stack, tok) ==
    CASE tok.t = "text" -> object_was_parsed(stack, TextNode(tok.name))
      [] tok.t = "open" ->
            IF tok.name \in VoidTags
            THEN object_was_parsed(stack, TagNode(tok.name, tok.attrs, <<>>))
            ELSE Append(stack, TagNode(tok.name, tok.attrs, <<>>))
      [] tok.t = "close" -> popToTag(stack, tok.name)

RECURSIVE close_all(_)
close_all(stack) == IF Len(stack) = 1 THEN stack[1] ELSE close_all(popTag(stack))

RECURSIVE feed(_, _, _)
feed(toks, i, stack) ==
    IF i > Len(toks) THEN close_all(stack)
    ELSE feed(toks, i + 1, handle_token(stack, toks[i]))

BeautifulSoup(html) == feed(html, 1, <<Root>>)

\* str(soup): the tree written back as a string
RECURSIVE decode(_), decode_contents(_, _)
decode_contents(kids, i) ==
    IF i > Len(kids) THEN <<>> ELSE decode(kids[i]) \o decode_contents(kids, i + 1)
decode(node) ==
    IF node.t = "text" THEN <<Txt(node.name)>>
    ELSE IF node.name = "[document]" THEN decode_contents(node.kids, 1)
    ELSE IF node.name \in VoidTags THEN <<Open(node.name, node.attrs)>>
    ELSE <<Open(node.name, node.attrs)>> \o decode_contents(node.kids, 1)
         \o <<Close(node.name)>>

\* soup.get_text(): the text nodes of the tree, concatenated with no separator
RECURSIVE get_text(_), get_text_kids(_, _)
get_text_kids(kids, i) ==
    IF i > Len(kids) THEN <<>> ELSE get_text(kids[i]) \o get_text_kids(kids, i + 1)
get_text(node) ==
    IF node.t = "text" THEN <<Txt(node.name)>> ELSE get_text_kids(node.kids, 1)

(***************************************************************************)
(* JSONCombiner.clean_html                                                 *)
(***************************************************************************)
\* for notice in soup.find_all(class_='js-post-notice'): notice.decompose()
RECURSIVE decompose_notices(_), decompose_notices_kids(_, _)
decompose_notices_kids(kids, i) ==
    IF i > Len(kids) THEN <<>>
    ELSE (IF kids[i].t = "tag" /\ NoticeClass \in kids[i].attrs
          THEN <<>> ELSE <<decompose_notices(kids[i])>>)
         \o decompose_notices_kids(kids, i + 1)
decompose_notices(node) ==
    IF node.t = "text" THEN node
    ELSE [node EXCEPT !.kids = decompose_notices_kids(node.kids, 1)]

allowed_attrs_keep_id(name) == IF name = "a" THEN {"href", "id"} ELSE {"id"}

allowed_attrs(name) == IF name = "a" THEN {"href"} ELSE {}

\* for tag in soup.find_all(True): del tag[attr] for every attr not allowed
RECURSIVE strip_attrs(_), strip_attrs_kids(_, _)
strip_attrs_kids(kids, i) ==
    IF i > Len(kids) THEN <<>>
    ELSE <<strip_attrs(kids[i])>> \o strip_attrs_kids(kids, i + 1)
strip_attrs(node) ==
    IF node.t = "text" THEN node
    ELSE [node EXCEPT !.attrs = @ \cap allowed_attrs(node.name),
                      !.kids = strip_attrs_kids(node.kids, 1)]

allowed_tags == {"p", "code", "a"}

\* for tag in soup.find_all(): tag.unwrap() when its name is not allowed
RECURSIVE unwrap_disallowed(_), unwrap_disallowed_kids(_, _)
unwrap_disallowed_kids(kids, i) ==
    IF i > Len(kids) THEN <<>>
    ELSE (IF kids[i].t = "tag" /\ kids[i].name \notin allowed_tags
          THEN unwrap_disallowed_kids(kids[i].kids, 1)
          ELSE <<unwrap_disallowed(kids[i])>>)
         \o unwrap_disallowed_kids(kids, i + 1)
unwrap_disallowed(node) ==
    IF node.t = "text" THEN node
    ELSE [node EXCEPT !.kids = unwrap_disallowed_kids(node.kids, 1)]

\* a variant that unwraps only the outermost disallowed tags
RECURSIVE unwrap_outermost_kids(_, _)
unwrap_outermost_kids(kids, i) ==
    IF i > Len(kids) THEN <<>>
    ELSE (IF kids[i].t = "tag" /\ kids[i].name \notin allowed_tags
          THEN kids[i].kids
          ELSE IF kids[i].t = "tag"
               THEN <<[kids[i] EXCEPT !.kids = unwrap_outermost_kids(@, 1)]>>
               ELSE <<kids[i]>>)
         \o unwrap_outermost_kids(kids, i + 1)
unwrap_outermost(soup) == [soup EXCEPT !.kids = unwrap_outermost_kids(@, 1)]

unwrap_tags(soup) == unwrap_disallowed(soup)

clean_html(html) ==
    strip(collapse_ws(decode(
        unwrap_tags(strip_attrs(decompose_notices(BeautifulSoup(html)))))))

(***************************************************************************)
(* Records.  A question is a bare string, a {content: string} wrapper, or  *)
(* absent / of another type ("none"); answers may be absent, and each      *)
(* answer is a string or a value of another type.                          *)
(***************************************************************************)
StrQ(html) == [shape |-> "str", content |-> html]
DictQ(html) == [shape |-> "dict", content |-> html]
NoQ == [shape |-> "none", content |-> <<>>]
Ans(html) == [isstr |-> TRUE, html |-> html]
NotStrAns == [isstr |-> FALSE, html |-> <<>>]
Entry(q, as) == [question |-> q, has_answers |-> TRUE, answers |-> as]
EntryNoAnswers(q) == [question |-> q, has_answers |-> FALSE, answers |-> <<>>]

LowerOf(c) ==
    CASE c = "X" -> "x" [] c = "Y" -> "y" [] c = "A" -> "a" [] c = "B" -> "b" [] OTHER -> c

\* str.lower()
lower(s) == [i \in DOMAIN s |-> [s[i] EXCEPT !.name = LowerOf(@)]]

\* JSONCombiner.clean_question_content
clean_question_content(question_content) ==
    lower(strip(collapse_ws(get_text(BeautifulSoup(clean_html(question_content))))))

\* JSONCombiner.extract_question_content: entry.get('question', ''), a dict's
\* 'content'; anything that is not a string cleans to ''
extract_question_content(e) ==
    clean_question_content(IF e.question.shape = "none" THEN <<>> ELSE e.question.content)

\* hashlib.md5(text.encode()).hexdigest(), taken to be collision free
md5(text) == <<"md5", text>>

RECURSIVE AnswersText(_, _)
AnswersText(as, i) ==
    IF i > Len(as) THEN <<>> ELSE as[i].html \o AnswersText(as, i + 1)

\* a variant that digests the answers as well
hash_entry_with_answers(e) ==
    md5(extract_question_content(e) \o AnswersText(e.answers, 1))

\* JSONCombiner.hash_entry
hash_entry(e) == md5(extract_question_content(e))

(***************************************************************************)
(* Inputs of the HTML runs: every string of at most MaxHtmlLen tokens over *)
(* HtmlAlphabet, and a few longer documents.                               *)
(***************************************************************************)
HtmlAlphabet ==
    { Txt("x"), Txt(" "), Open("p", {}), Close("p"), Open("div", {"id"}), Close("div"),
      Open("div", {NoticeClass}), Open("a", {"href", "id"}), Close("a") }

HtmlSamples ==
    { <<Open("a", {"href", "id"}), Open("div", {"id"}), Txt("x"),
        Open("div", {NoticeClass, "id"}), Open("p", {}), Txt("y"), Close("p"), Close("div"),
        Txt("\n"), Txt(" "), Open("br", {}), Open("code", {"class=lang"}), Txt("X"),
        Close("code"), Close("div"), Close("a")>>,
      <<Open("div", {}), Open("span", {}), Open("div", {NoticeClass}), Txt("y"),
        Close("div"), Open("div", {}), Txt("x"), Close("div"), Close("span"), Close("div"),
        Txt("\n"), Txt("\n"), Open("p", {}), Close("p")>>,
      <<Open("p", {"id"}), Txt("x"), Txt("\n"), Txt("\n"), Txt("y"), Close("span"),
        Open("div", {NoticeClass}), Open("div", {NoticeClass}), Txt("x")>> }

HtmlInputs == SeqsUpTo(HtmlAlphabet, MaxHtmlLen) \cup HtmlSamples

HtmlIdle == html_content = <<>> /\ cleaned_html = <<>> /\ recleaned = <<>>
VariantIdle == entry0 = <<>> /\ entry = <<>> /\ edits = 0
CombinerIdle ==
    /\ files = <<>> /\ duplicate_indices = <<>> /\ unique_entries = <<>>
    /\ hash_set = {} /\ file_paths = <<>> /\ fi = 0
    /\ processed_entries = <<>> /\ total_entries = 0 /\ original_counts = <<>>
    /\ stats = <<>> /\ log = <<>> /\ calls = 0
JsonIdle == content = <<>> /\ fixed = <<>>
CodeIdle == code = <<>> /\ sanitized = <<>>
EscapeIdle ==
    escaped_text = <<>> /\ unescaped = <<>> /\ raw_code = <<>> /\ processed_code = <<>>
SplitIdle == fragment = <<>> /\ code_blocks = <<>> /\ text_blocks = <<>>
BowIdle ==
    /\ json_data = <<>> /\ validated_data = <<>> /\ di = 0 /\ max_vocab_size = 0
    /\ processed_data = <<>> /\ code_vocabulary = <<>> /\ text_vocabulary = <<>>
    /\ bag_of_words_dataset = <<>>
PrepIdle == EscapeIdle /\ SplitIdle /\ BowIdle

InitHtml ==
    /\ pc = "html_input"
    /\ html_content \in HtmlInputs
    /\ cleaned_html = <<>> /\ recleaned = <<>>
    /\ VariantIdle /\ CombinerIdle /\ JsonIdle /\ CodeIdle /\ PrepIdle

\* cleaned = clean_html(html_content)
CleanHtml ==
    /\ pc = "html_input"
    /\ cleaned_html' = clean_html(html_content)
    /\ pc' = "html_cleaned"
    /\ UNCHANGED <<html_content, recleaned, variantVars, combinerVars, jsonVars, codeVars,
                   prepVars>>

\* clean_html applied to its own output, as hash_entry does to a processed entry
CleanHtmlAgain ==
    /\ pc = "html_cleaned"
    /\ recleaned' = clean_html(cleaned_html)
    /\ pc' = "html_recleaned"
    /\ UNCHANGED <<html_content, cleaned_html, variantVars, combinerVars, jsonVars,
                   codeVars, prepVars>>

NextHtml == CleanHtml \/ CleanHtmlAgain

SpecHtml == InitHtml /\ [][NextHtml]_vars

(***************************************************************************)
(* C6: clean_html is idempotent: cleaning the output of clean_html again   *)
(* gives the same string.                                                  *)
(***************************************************************************)
CleanHtmlIdempotent == pc = "html_recleaned" => recleaned = cleaned_html

\* a run where the first pass unwrapped a nested disallowed tag, removed a notice
\* and collapsed whitespace, and the second pass had tags left to read
CleanHtmlIdempotentWitness ==
    /\ pc = "html_recleaned"
    /\ \E i \in DOMAIN html_content :
          /\ html_content[i].t = "open" /\ html_content[i].name = "span"
    /\ \E i \in DOMAIN html_content : NoticeClass \in html_content[i].attrs
    /\ \E i \in DOMAIN cleaned_html : cleaned_html[i].t = "open"
    /\ Len(cleaned_html) < Len(html_content)
    /\ recleaned = cleaned_html

(***************************************************************************)
(* The document read in order with notice subtrees skipped, disallowed     *)
(* tags dropped and their content kept, and only href left on an anchor.   *)
(***************************************************************************)
RECURSIVE Retained(_), RetainedKids(_, _)
RetainedKids(kids, i) ==
    IF i > Len(kids) THEN <<>> ELSE Retained(kids[i]) \o RetainedKids(kids, i + 1)
Retained(node) ==
    IF node.t = "text" THEN <<Txt(node.name)>>
    ELSE IF NoticeClass \in node.attrs THEN <<>>
    ELSE IF node.name \in {"p", "code", "a"}
         THEN <<Open(node.name, IF node.name = "a" THEN node.attrs \cap {"href"} ELSE {})>>
              \o RetainedKids(node.kids, 1) \o <<Close(node.name)>>
    ELSE RetainedKids(node.kids, 1)

NonWs(s) == SelectSeq(s, LAMBDA tok : ~ IsWs(tok))

(***************************************************************************)
(* C7: the output of clean_html has no tag outside {p, code, a}, no        *)
(* attribute but href on an a element, nothing of a js-post-notice element *)
(* or of its subtree, and keeps the text of unwrapped elements in place:   *)
(* up to whitespace it is the document read in order, with notice subtrees *)
(* skipped, disallowed tags dropped and their content kept.                *)
(***************************************************************************)
CleanHtmlOutputRestricted ==
    pc = "html_cleaned" =>
        /\ \A i \in DOMAIN cleaned_html :
              cleaned_html[i].t # "text" => cleaned_html[i].name \in {"p", "code", "a"}
        /\ \A i \in DOMAIN cleaned_html :
              cleaned_html[i].attrs \subseteq
                  (IF cleaned_html[i].t = "open" /\ cleaned_html[i].name = "a"
                   THEN {"href"} ELSE {})
        /\ NonWs(cleaned_html) = NonWs(Retained(BeautifulSoup(html_content)))

\* an anchor with href and id holding an unwrapped div whose text stays, and a
\* notice element with a paragraph inside that goes
CleanHtmlOutputRestrictedWitness ==
    /\ pc = "html_cleaned"
    /\ Len(html_content) > 0
    /\ html_content[1] = Open("a", {"href", "id"})
    /\ \E i \in DOMAIN html_content : html_content[i] = Open("div", {NoticeClass, "id"})
    /\ cleaned_html = <<Open("a", {"href"}), Txt("x"), Txt(" "), Open("code", {}), Txt("X"),
                        Close("code"), Close("a")>>

(***************************************************************************)
(* A record and reformatted copies of it.  The question's HTML gets        *)
(* whitespace between two adjacent tags (or loses it), an extra attribute  *)
(* on a tag, or a disallowed wrapper tag around it; the answers are        *)
(* changed, reordered, duplicated or removed.  hash_entry is applied to    *)
(* the record and to the copy.                                             *)
(***************************************************************************)
Qpp == <<Open("p", {}), Txt("x"), Close("p"), Open("p", {}), Txt("y"), Close("p")>>
Qa == <<Open("p", {}), Txt("X"), Txt(" "), Open("a", {"href"}), Txt("y"), Close("a"),
        Close("p")>>
Qdiv == <<Open("div", {}), Txt("\n"), Open("p", {}), Txt("x"), Txt(" "), Txt("y"),
          Close("p"), Close("div")>>
A1 == <<Open("p", {}), Txt("x"), Close("p")>>
A2 == <<Txt("y")>>

BaseEntries ==
    { Entry(StrQ(Qpp), <<Ans(A1)>>), Entry(DictQ(Qa), <<Ans(A1), Ans(A2)>>),
      Entry(StrQ(Qdiv), <<>>), Entry(NoQ, <<Ans(A2)>>) }

NoiseAttrs == {"id", "class=lang"}
WrapperTags == {"div", "span"}

IsTag(tok) == tok.t \in {"open", "close"}

InsertAt(s, i, tok) == SubSeq(s, 1, i) \o <<tok>> \o SubSeq(s, i + 1, Len(s))
RemoveAt(s, i) == SubSeq(s, 1, i - 1) \o SubSeq(s, i + 1, Len(s))

\* the tokens before and after position i are tags (or the string's ends)
BetweenTags(s, before, after) ==
    /\ IF before = 0 THEN TRUE ELSE IsTag(s[before])
    /\ IF after = Len(s) + 1 THEN TRUE ELSE IsTag(s[after])

InitVariant ==
    /\ pc = "variant"
    /\ entry0 \in BaseEntries
    /\ entry = entry0
    /\ edits = 0
    /\ HtmlIdle /\ CombinerIdle /\ JsonIdle /\ CodeIdle /\ PrepIdle

Reformat(q) ==
    /\ pc = "variant"
    /\ edits < MaxEdits
    /\ entry.question.shape # "none"
    /\ entry' = [entry EXCEPT !.question.content = q]
    /\ edits' = edits + 1
    /\ UNCHANGED <<pc, entry0, htmlVars, combinerVars, jsonVars, codeVars, prepVars>>

\* whitespace added between two tags
InsertWhitespace ==
    \E i \in 0..Len(entry.question.content), c \in Whitespace :
        /\ BetweenTags(entry.question.content, i, i + 1)
        /\ Reformat(InsertAt(entry.question.content, i, Txt(c)))

\* whitespace between two tags removed
RemoveWhitespace ==
    \E i \in 1..Len(entry.question.content) :
        /\ IsWs(entry.question.content[i])
        /\ BetweenTags(entry.question.content, i - 1, i + 1)
        /\ Reformat(RemoveAt(entry.question.content, i))

\* an attribute added to a start tag
AddAttribute ==
    \E i \in 1..Len(entry.question.content), a \in NoiseAttrs :
        /\ entry.question.content[i].t = "open"
        /\ a \notin entry.question.content[i].attrs
        /\ Reformat([entry.question.content EXCEPT ![i].attrs = @ \cup {a}])

\* the whole question wrapped in a disallowed tag
WrapQuestion ==
    \E n \in WrapperTags :
        Reformat(<<Open(n, {})>> \o entry.question.content \o <<Close(n)>>)

SetAnswers(as) ==
    /\ pc = "variant"
    /\ Len(as) <= MaxAnswers
    /\ as # entry.answers
    /\ entry' = [entry EXCEPT !.answers = as]
    /\ UNCHANGED <<pc, entry0, edits, htmlVars, combinerVars, jsonVars, codeVars,
                   prepVars>>

ChangeAnswer ==
    \E i \in 1..Len(entry.answers), a \in {Ans(A1), Ans(A2), NotStrAns} :
        SetAnswers([entry.answers EXCEPT ![i] = a])

ReorderAnswers ==
    \E i, j \in 1..Len(entry.answers) :
        SetAnswers([entry.answers EXCEPT ![i] = entry.answers[j], ![j] = entry.answers[i]])

DuplicateAnswer ==
    \E i \in 1..Len(entry.answers) : SetAnswers(Append(entry.answers, entry.answers[i]))

RemoveAnswer ==
    \E i \in 1..Len(entry.answers) : SetAnswers(RemoveAt(entry.answers, i))

NextVariant ==
    \/ InsertWhitespace \/ RemoveWhitespace \/ AddAttribute \/ WrapQuestion
    \/ ChangeAnswer \/ ReorderAnswers \/ DuplicateAnswer \/ RemoveAnswer

SpecVariant == InitVariant /\ [][NextVariant]_vars

(***************************************************************************)
(* C3: records whose questions differ only in HTML formatting (whitespace  *)
(* between tags, extra attributes, disallowed wrapper tags) have the same  *)
(* hash.                                                                   *)
(***************************************************************************)
HashIgnoresFormatting == hash_entry(entry) = hash_entry(entry0)

(***************************************************************************)
(* C5: the hash of a record depends only on its question: a copy with the  *)
(* same question and changed, reordered, duplicated or removed answers has *)
(* the same hash.                                                          *)
(***************************************************************************)
HashIgnoresAnswers ==
    entry.question = entry0.question => hash_entry(entry) = hash_entry(entry0)

\* a copy with the same question whose answers were changed and reordered
HashIgnoresAnswersWitness ==
    /\ pc = "variant"
    /\ entry.question = entry0.question
    /\ entry.question.shape = "dict"
    /\ entry.answers = <<Ans(A2), Ans(A2)>>
    /\ entry0.answers = <<Ans(A1), Ans(A2)>>
    /\ hash_entry(entry) = hash_entry(entry0)

(***************************************************************************)
(* JSONCombiner.process_file and combine_files.  files is the content of   *)
(* the JSON files on disk (json.load of each); log lists, in processing    *)
(* order, every record process_file has read (its file, its index in the   *)
(* file, the record).                                                      *)
(***************************************************************************)
Paths == {"f1", "f2"}

R1 == Entry(StrQ(<<Open("p", {}), Txt("x"), Close("p")>>), <<Ans(A1)>>)
R2 == Entry(StrQ(<<Open("div", {"id"}), Open("p", {}), Txt(" "), Txt("X"), Txt("\n"),
                   Close("p"), Close("div")>>), <<Ans(A2)>>)
R3 == Entry(DictQ(<<Open("p", {"id"}), Txt("y"), Close("p")>>),
            <<Ans(<<Open("div", {}), Txt("x"), Close("div")>>), NotStrAns>>)
R4 == EntryNoAnswers(NoQ)
RawEntries == {R1, R2, R3, R4}

\* processed_entry['question'] (lines 103-109)
clean_question(q) ==
    CASE q.shape = "str" -> StrQ(clean_html(q.content))
      [] q.shape = "dict" -> DictQ(clean_html(q.content))
      [] OTHER -> NoQ

\* processed_entry['answers'] (lines 112-116): the str answers, cleaned
RECURSIVE clean_answers(_, _)
clean_answers(as, i) ==
    IF i > Len(as) THEN <<>>
    ELSE (IF as[i].isstr THEN <<Ans(clean_html(as[i].html))>> ELSE <<>>)
         \o clean_answers(as, i + 1)

processed_entry(e) ==
    [question |-> clean_question(e.question), has_answers |-> e.has_answers,
     answers |-> IF e.has_answers THEN clean_answers(e.answers, 1) ELSE <<>>]

\* processed_entry and hash_entry tabulated over the records the files can hold, so
\* that each is computed once
ProcessedEntryOf == [e \in RawEntries |-> processed_entry(e)]
HashOf ==
    [e \in RawEntries \cup {ProcessedEntryOf[r] : r \in RawEntries} |-> hash_entry(e)]

\* a variant that forgets to add the hash of a kept record to hash_set
check_duplicate_no_add(st, e, i, file_path) ==
    LET pe == ProcessedEntryOf[e]
        entry_hash == HashOf[pe]
    IN IF entry_hash \in st.hash_set
       THEN [st EXCEPT !.duplicate_indices =
                IF entry_hash \in DOMAIN @
                THEN [@ EXCEPT ![entry_hash] = Append(@, <<i, file_path>>)]
                ELSE @ @@ (entry_hash :> <<<<i, file_path>>>>)]
       ELSE [st EXCEPT !.processed_entries = Append(@, pe)]

\* a variant that records a duplicate only when its hash has no list yet
check_duplicate_first_only(st, e, i, file_path) ==
    LET pe == ProcessedEntryOf[e]
        entry_hash == HashOf[pe]
    IN IF entry_hash \in st.hash_set
       THEN [st EXCEPT !.duplicate_indices =
                IF entry_hash \in DOMAIN @ THEN @
                ELSE @ @@ (entry_hash :> <<<<i, file_path>>>>)]
       ELSE [st EXCEPT !.hash_set = @ \cup {entry_hash},
                       !.processed_entries = Append(@, pe)]

\* one turn of process_file's loop (lines 99-129) on record e, index i of file_path
check_duplicate(st, e, i, file_path) ==
    LET pe == ProcessedEntryOf[e]
        entry_hash == HashOf[pe]
    IN IF entry_hash \in st.hash_set
       THEN [st EXCEPT !.duplicate_indices =
                IF entry_hash \in DOMAIN @
                THEN [@ EXCEPT ![entry_hash] = Append(@, <<i, file_path>>)]
                ELSE @ @@ (entry_hash :> <<<<i, file_path>>>>)]
       ELSE [st EXCEPT !.hash_set = @ \cup {entry_hash},
                       !.processed_entries = Append(@, pe)]

\* for idx, entry in enumerate(data): idx counts from 0
RECURSIVE process_entries(_, _, _, _)
process_entries(st, data, k, file_path) ==
    IF k > Len(data) THEN st
    ELSE process_entries(check_duplicate(st, data[k], k - 1, file_path), data, k + 1,
                         file_path)

\* JSONCombiner.process_file: the object's hash_set and duplicate_indices after the
\* call, and the list it returns
process_file(file_path) ==
    process_entries([hash_set |-> hash_set, duplicate_indices |-> duplicate_indices,
                     processed_entries |-> <<>>], files[file_path], 1, file_path)

LogOf(file_path) ==
    [k \in 1..Len(files[file_path]) |->
        [path |-> file_path, idx |-> k - 1, entry |-> files[file_path][k]]]

\* JSONCombiner() and the files on disk
InitCombiner ==
    /\ pc = "idle"
    /\ files \in [Paths -> SeqsUpTo(RawEntries, MaxEntries)]
    /\ duplicate_indices = <<>> /\ unique_entries = <<>> /\ hash_set = {}
    /\ file_paths = <<>> /\ fi = 0
    /\ processed_entries = <<>> /\ total_entries = 0 /\ original_counts = <<>>
    /\ stats = <<>> /\ log = <<>> /\ calls = 0
    /\ HtmlIdle /\ VariantIdle /\ JsonIdle /\ CodeIdle /\ PrepIdle

\* combine_files(file_paths, output_path) is called (lines 138-139)
CombineFiles ==
    /\ pc = "idle"
    /\ \E fps \in SeqsUpTo(Paths, MaxFiles) :
          /\ fps # <<>>
          /\ file_paths' = fps
    /\ fi' = 1
    /\ total_entries' = 0
    /\ original_counts' = <<>>
    /\ calls' = 1
    /\ pc' = "combining"
    /\ UNCHANGED <<files, duplicate_indices, unique_entries, hash_set, processed_entries,
                   stats, log, htmlVars, variantVars, jsonVars, codeVars, prepVars>>

\* one turn of combine_files' loop (lines 142-146), process_file included
ProcessFile ==
    /\ pc = "combining"
    /\ fi <= Len(file_paths)
    /\ LET file_path == file_paths[fi]
           done == process_file(file_path)
           entries == done.processed_entries
       IN /\ hash_set' = done.hash_set
          /\ duplicate_indices' = done.duplicate_indices
          /\ processed_entries' = entries
          /\ original_counts' =
                [f \in DOMAIN original_counts \cup {file_path} |->
                    IF f = file_path THEN Len(entries) ELSE original_counts[f]]
          /\ total_entries' = total_entries + Len(entries)
          /\ unique_entries' = unique_entries \o entries
          /\ log' = log \o LogOf(file_path)
    /\ fi' = fi + 1
    /\ UNCHANGED <<pc, files, file_paths, stats, calls, htmlVars, variantVars, jsonVars,
                   codeVars, prepVars>>

\* the end of combine_files (lines 148-161): the output file holds unique_entries
\* and the statistics are returned
ReturnStats ==
    /\ pc = "combining"
    /\ fi > Len(file_paths)
    /\ stats' = [original_file_counts |-> original_counts,
                 total_original_entries |-> total_entries,
                 unique_entries |-> Len(unique_entries),
                 duplicates_removed |-> total_entries - Len(unique_entries),
                 duplicate_indices |-> duplicate_indices]
    /\ pc' = "done"
    /\ UNCHANGED <<files, duplicate_indices, unique_entries, hash_set, file_paths, fi,
                   processed_entries, total_entries, original_counts, log, calls,
                   htmlVars, variantVars, jsonVars, codeVars, prepVars>>

NextCombiner == CombineFiles \/ ProcessFile \/ ReturnStats

SpecCombiner == InitCombiner /\ [][NextCombiner]_vars

\* the hash of the k-th record read
HashAt(k) == HashOf[log[k].entry]
\* the k-th record read is the first with its hash
FirstSeen(k) == \A j \in 1..(k - 1) : HashAt(j) # HashAt(k)

RECURSIVE FirstOccurrences(_)
FirstOccurrences(k) ==
    IF k > Len(log) THEN <<>>
    ELSE (IF FirstSeen(k) THEN <<ProcessedEntryOf[log[k].entry]>> ELSE <<>>)
         \o FirstOccurrences(k + 1)

RECURSIVE LaterOccurrences(_, _)
LaterOccurrences(h, k) ==
    IF k > Len(log) THEN <<>>
    ELSE (IF HashAt(k) = h /\ ~ FirstSeen(k) THEN <<<<log[k].idx, log[k].path>>>> ELSE <<>>)
         \o LaterOccurrences(h, k + 1)

RECURSIVE SumLen(_, _)
SumLen(f, S) ==
    IF S = {} THEN 0
    ELSE LET x == CHOOSE y \in S : TRUE IN Len(f[x]) + SumLen(f, S \ {x})

(***************************************************************************)
(* C1: after any sequence of processed files, unique_entries holds, in     *)
(* input order, exactly the first record read with each hash, and no two   *)
(* retained records share a hash.                                          *)
(***************************************************************************)
FirstOccurrenceKept ==
    /\ unique_entries = FirstOccurrences(1)
    /\ \A i, j \in DOMAIN unique_entries :
          HashOf[unique_entries[i]] = HashOf[unique_entries[j]] => i = j
    /\ \A k \in DOMAIN log :
          \E i \in DOMAIN unique_entries : HashOf[unique_entries[i]] = HashAt(k)

\* two files were combined, the second repeating a question of the first with other
\* formatting and answers: the copy from the first file is the one kept
FirstOccurrenceKeptWitness ==
    /\ pc = "done"
    /\ file_paths = <<"f1", "f2">>
    /\ files["f1"] = <<R3, R1>>
    /\ files["f2"] = <<R2, R4>>
    /\ unique_entries = <<processed_entry(R3), processed_entry(R1), processed_entry(R4)>>

(***************************************************************************)
(* C2: the statistics combine_files returns report total_original_entries  *)
(* as the number of records read before deduplication, original_file_counts*)
(* as the number read from each file, and duplicates_removed as the number *)
(* of records dropped as duplicates.                                       *)
(***************************************************************************)
StatsCountOriginals ==
    pc = "done" =>
        /\ stats.total_original_entries = Len(log)
        /\ \A f \in DOMAIN stats.original_file_counts :
              stats.original_file_counts[f] = Len(files[f])
        /\ stats.duplicates_removed = Len(log) - Len(unique_entries)

(***************************************************************************)
(* C4: duplicate_indices holds, under each hash, the (index, file) pair of *)
(* every record read whose hash had been seen before, once and in order,   *)
(* and nothing else; kept records plus recorded locations are all the      *)
(* records read.                                                           *)
(***************************************************************************)
DuplicatesRecordedOnce ==
    /\ \A k \in DOMAIN log : ~ FirstSeen(k) => HashAt(k) \in DOMAIN duplicate_indices
    /\ \A h \in DOMAIN duplicate_indices :
          /\ duplicate_indices[h] # <<>>
          /\ duplicate_indices[h] = LaterOccurrences(h, 1)
    /\ Len(unique_entries) + SumLen(duplicate_indices, DOMAIN duplicate_indices) = Len(log)

\* one question read three times: two locations recorded under its hash, in two files
DuplicatesRecordedOnceWitness ==
    /\ pc = "done"
    /\ Len(unique_entries) = 2
    /\ \E h \in DOMAIN duplicate_indices :
          duplicate_indices[h] = <<<<1, "f1">>, <<0, "f2">>>>

(***************************************************************************)
(* JSON text: a sequence of characters.  "m" stands for one member of an   *)
(* object ("key": value with no brace, bracket or comma in it).            *)
(***************************************************************************)
BOM == "\\ufeff"
JsonWs == {" "}
JsonAlphabet == {BOM, " ", "[", "]", "{", "}", ",", "m"}

RECURSIVE strip_chars(_, _)
strip_chars(s, chars) ==
    IF s # <<>> /\ s[1] \in chars THEN strip_chars(Tail(s), chars)
    ELSE IF s # <<>> /\ Last(s) \in chars THEN strip_chars(Front(s), chars)
    ELSE s

RECURSIVE lstrip_chars(_, _)
lstrip_chars(s, chars) ==
    IF s # <<>> /\ s[1] \in chars THEN lstrip_chars(Tail(s), chars) ELSE s

\* the index of the first character at or after i that is not whitespace
RECURSIVE SkipWs(_, _)
SkipWs(s, i) == IF i <= Len(s) /\ s[i] \in JsonWs THEN SkipWs(s, i + 1) ELSE i

CharAt(s, i) == IF i \in DOMAIN s THEN s[i] ELSE "<end>"

\* re.sub(r'}\s*{', '},{', content)
RECURSIVE insert_missing_commas(_)
insert_missing_commas(s) ==
    IF s = <<>> THEN <<>>
    ELSE IF s[1] = "}" /\ CharAt(s, SkipWs(s, 2)) = "{"
         THEN <<"}", ",", "{">> \o insert_missing_commas(SubSeq(s, SkipWs(s, 2) + 1, Len(s)))
         ELSE <<s[1]>> \o insert_missing_commas(Tail(s))

\* re.sub(r',(\s*[}\]])', r'\1', content)
RECURSIVE remove_trailing_commas(_)
remove_trailing_commas(s) ==
    IF s = <<>> THEN <<>>
    ELSE IF s[1] = "," /\ CharAt(s, SkipWs(s, 2)) \in {"}", "]"}
         THEN SubSeq(s, 2, SkipWs(s, 2))
              \o remove_trailing_commas(SubSeq(s, SkipWs(s, 2) + 1, Len(s)))
         ELSE <<s[1]>> \o remove_trailing_commas(Tail(s))

\* if not content.startswith('['): ...; if not content.endswith(']'): ...
wrap_in_brackets(s) ==
    LET opened == IF CharAt(s, 1) = "[" THEN s ELSE <<"[">> \o s
    IN IF Last(opened) = "]" THEN opened ELSE opened \o <<"]">>

\* DataPreprocessor.fix_json_structure
fix_json_structure(s) ==
    remove_trailing_commas(insert_missing_commas(wrap_in_brackets(
        lstrip_chars(strip_chars(s, JsonWs), {BOM}))))

(***************************************************************************)
(* json.loads on this alphabet: a value is an object of members or an      *)
(* array of values; whitespace may surround every token, anything else     *)
(* (a byte-order mark, a stray comma, a missing bracket) is a decode error.*)
(***************************************************************************)
JsonFail == [ok |-> FALSE, pos |-> 0, val |-> [k |-> "none", n |-> 0, elems |-> <<>>]]
JsonObject(n) == [k |-> "obj", n |-> n, elems |-> <<>>]
JsonArray(elems) == [k |-> "arr", n |-> 0, elems |-> elems]
JsonOk(val, pos) == [ok |-> TRUE, pos |-> pos, val |-> val]

\* the members of an object from position i (after "{" or a comma), n read so far
RECURSIVE ParseMembers(_, _, _)
ParseMembers(s, i, n) ==
    IF CharAt(s, i) # "m" THEN JsonFail
    ELSE LET j == SkipWs(s, i + 1)
         IN IF CharAt(s, j) = "}" THEN JsonOk(JsonObject(n + 1), j + 1)
            ELSE IF CharAt(s, j) = "," THEN ParseMembers(s, SkipWs(s, j + 1), n + 1)
            ELSE JsonFail

RECURSIVE ParseValue(_, _), ParseElements(_, _, _)
ParseElements(s, i, elems) ==
    LET r == ParseValue(s, i)
    IN IF ~ r.ok THEN JsonFail
       ELSE LET j == SkipWs(s, r.pos)
            IN IF CharAt(s, j) = "]" THEN JsonOk(JsonArray(Append(elems, r.val)), j + 1)
               ELSE IF CharAt(s, j) = ","
                    THEN ParseElements(s, SkipWs(s, j + 1), Append(elems, r.val))
               ELSE JsonFail
ParseValue(s, i) ==
    IF CharAt(s, i) = "{"
    THEN LET j == SkipWs(s, i + 1)
         IN IF CharAt(s, j) = "}" THEN JsonOk(JsonObject(0), j + 1)
            ELSE ParseMembers(s, j, 0)
    ELSE IF CharAt(s, i) = "["
    THEN LET j == SkipWs(s, i + 1)
         IN IF CharAt(s, j) = "]" THEN JsonOk(JsonArray(<<>>), j + 1)
            ELSE ParseElements(s, j, <<>>)
    ELSE JsonFail

json_loads(s) ==
    LET r == ParseValue(s, SkipWs(s, 1))
    IN IF r.ok /\ SkipWs(s, r.pos) = Len(s) + 1 THEN r ELSE JsonFail

JsonSamples ==
    { <<BOM, " ", "[", "{", "m", "}", ",", "{", "}", "]", " ">>,
      <<" ", "{", "m", ",", "m", "}", " ", "{", "m", "}", ",", " ", "{", "}", " ">>,
      <<"[", "{", "m", ",", " ", "}", ",", " ", "]">>,
      <<BOM, "{", "m", "}", "{", "}">> }

JsonInputs == SeqsUpTo(JsonAlphabet, MaxJsonLen) \cup JsonSamples

InitJson ==
    /\ pc = "json_input"
    /\ content \in JsonInputs
    /\ fixed = <<>>
    /\ HtmlIdle /\ VariantIdle /\ CombinerIdle /\ CodeIdle /\ PrepIdle

\* content = self.fix_json_structure(content)
FixJsonStructure ==
    /\ pc = "json_input"
    /\ fixed' = fix_json_structure(content)
    /\ pc' = "json_fixed"
    /\ UNCHANGED <<content, htmlVars, variantVars, combinerVars, codeVars, prepVars>>

NextJson == FixJsonStructure

SpecJson == InitJson /\ [][NextJson]_vars

(***************************************************************************)
(* The inputs C8 speaks of: an optional byte-order mark, optional          *)
(* whitespace, then n objects separated by a comma (with optional          *)
(* whitespace around it) or by whitespace only, with or without the outer  *)
(* brackets, then optional whitespace.  ObjectList reads the objects.      *)
(***************************************************************************)
RECURSIVE ObjectList(_, _, _)
ObjectList(s, i, objs) ==
    IF i = Len(s) + 1 THEN [ok |-> TRUE, objs |-> objs]
    ELSE LET r == ParseValue(s, i)
         IN IF ~ r.ok \/ r.val.k # "obj" THEN [ok |-> FALSE, objs |-> <<>>]
            ELSE LET j == SkipWs(s, r.pos)
                 IN IF j = Len(s) + 1 THEN
                        IF j = r.pos THEN [ok |-> TRUE, objs |-> Append(objs, r.val)]
                        ELSE [ok |-> FALSE, objs |-> <<>>]
                    ELSE IF CharAt(s, j) = ","
                         THEN IF SkipWs(s, j + 1) = Len(s) + 1
                              THEN [ok |-> FALSE, objs |-> <<>>]
                              ELSE ObjectList(s, SkipWs(s, j + 1), Append(objs, r.val))
                    ELSE IF j > r.pos THEN ObjectList(s, j, Append(objs, r.val))
                    ELSE [ok |-> FALSE, objs |-> <<>>]

InputObjects(s) ==
    LET body == strip_chars(IF CharAt(s, 1) = BOM THEN Tail(s) ELSE s, JsonWs)
        inner == IF CharAt(body, 1) = "[" /\ Len(body) >= 2 /\ Last(body) = "]"
                 THEN strip_chars(SubSeq(body, 2, Len(body) - 1), JsonWs)
                 ELSE body
    IN ObjectList(inner, 1, <<>>)

(***************************************************************************)
(* C8: for such an input, fix_json_structure returns text that parses as a *)
(* JSON array of exactly those n objects.                                  *)
(***************************************************************************)
RepairYieldsArrayOfObjects ==
    pc = "json_fixed" /\ InputObjects(content).ok =>
        /\ json_loads(fixed).ok
        /\ json_loads(fixed).val = JsonArray(InputObjects(content).objs)

(***************************************************************************)
(* C9: after fix_json_structure the text has no comma that is followed,    *)
(* after optional whitespace, by a closing brace or bracket.               *)
(***************************************************************************)
NoCommaBeforeCloser ==
    pc = "json_fixed" =>
        \A i \in DOMAIN fixed :
            fixed[i] = "," => CharAt(fixed, SkipWs(fixed, i + 1)) \notin {"}", "]"}

(***************************************************************************)
(* Code text: a sequence of characters.                                    *)
(***************************************************************************)
BS == "\\"
QUOTE == "\""
NL == "\n"
CR == "\r"
TAB == "\t"
SLASH == "/"
CodeAlphabet == {BS, QUOTE, NL, CR, TAB, SLASH, "n", "a"}

\* str.replace(old, new) for a one-character old
RECURSIVE replace(_, _, _)
replace(s, old, new) ==
    IF s = <<>> THEN <<>>
    ELSE (IF s[1] = old THEN new ELSE <<s[1]>>) \o replace(Tail(s), old, new)

\* re.sub(r'(?<!\\)/', '\\/', code): a slash not preceded by a backslash
RECURSIVE escape_slashes(_, _)
escape_slashes(s, i) ==
    IF i > Len(s) THEN <<>>
    ELSE (IF s[i] = SLASH /\ CharAt(s, i - 1) # BS THEN <<BS, SLASH>> ELSE <<s[i]>>)
         \o escape_slashes(s, i + 1)

\* a variant that escapes the quotes before the backslashes
sanitize_quotes_first(c) ==
    escape_slashes(
        replace(replace(replace(replace(replace(c, QUOTE, <<BS, QUOTE>>), BS, <<BS, BS>>),
                                NL, <<BS, "n">>), CR, <<BS, "r">>), TAB, <<BS, "t">>), 1)

\* DataPreprocessor.sanitize_code_block
sanitize_code_block(c) ==
    escape_slashes(
        replace(replace(replace(replace(replace(c, BS, <<BS, BS>>), QUOTE, <<BS, QUOTE>>),
                                NL, <<BS, "n">>), CR, <<BS, "r">>), TAB, <<BS, "t">>), 1)

(***************************************************************************)
(* The body of a JSON string decoded as json.loads does: an escape is a    *)
(* backslash and one of " \ / n r t; a bare quote, a bare control          *)
(* character or any other use of a backslash is a decode error.            *)
(***************************************************************************)
Unescaped(c) ==
    CASE c = "n" -> NL [] c = "r" -> CR [] c = "t" -> TAB [] OTHER -> c

RECURSIVE json_string_decode(_, _, _)
json_string_decode(s, i, out) ==
    IF i > Len(s) THEN [ok |-> TRUE, val |-> out]
    ELSE IF s[i] = BS
         THEN IF CharAt(s, i + 1) \in {QUOTE, BS, SLASH, "n", "r", "t"}
              THEN json_string_decode(s, i + 2, Append(out, Unescaped(s[i + 1])))
              ELSE [ok |-> FALSE, val |-> <<>>]
    ELSE IF s[i] \in {QUOTE, NL, CR, TAB} THEN [ok |-> FALSE, val |-> <<>>]
    ELSE json_string_decode(s, i + 1, Append(out, s[i]))

InitCode ==
    /\ pc = "code_input"
    /\ code \in SeqsUpTo(CodeAlphabet, MaxCodeLen)
    /\ sanitized = <<>>
    /\ HtmlIdle /\ VariantIdle /\ CombinerIdle /\ JsonIdle /\ PrepIdle

\* sanitized_code = self.sanitize_code_block(code)
SanitizeCodeBlock ==
    /\ pc = "code_input"
    /\ sanitized' = sanitize_code_block(code)
    /\ pc' = "code_sanitized"
    /\ UNCHANGED <<code, htmlVars, variantVars, combinerVars, jsonVars, prepVars>>

NextCode == SanitizeCodeBlock

SpecCode == InitCode /\ [][NextCode]_vars

(***************************************************************************)
(* C10: decoding the sanitized text as the body of a JSON string gives     *)
(* back the original code string.                                          *)
(***************************************************************************)
SanitizeRoundTrip ==
    pc = "code_sanitized" =>
        json_string_decode(sanitized, 1, <<>>) = [ok |-> TRUE, val |-> code]

\* a code string with a backslash before a slash, a quote and a line break
SanitizeRoundTripWitness ==
    /\ pc = "code_sanitized"
    /\ code = <<BS, SLASH, QUOTE, NL>>
    /\ sanitized = <<BS, BS, SLASH, BS, QUOTE, BS, "n">>

(***************************************************************************)
(* DataPreprocessor.load_json_safely after json.loads (lines 304-317) and  *)
(* DataPreprocessor.process_file.  json_data is the parsed array: each     *)
(* element is a value that is not an object, or an object whose question   *)
(* and answers members may be absent and whose answers may be a value that *)
(* is not an array.  An object is a record with a question field, whose    *)
(* shape "none" stands for an absent member.                               *)
(***************************************************************************)
NotADict == [scalar |-> "x"]
EntryAnswersNotList(q) ==
    [question |-> q, has_answers |-> TRUE, answers |-> <<>>, answers_type |-> "str"]

\* a string of text characters
Text(chars) == [i \in DOMAIN chars |-> Txt(chars[i])]

P1 == Entry(StrQ(<<Open("p", {})>> \o Text(<<"a", "b", " ", "a", "b">>) \o <<Close("p")>>
                 \o <<Open("code", {})>> \o Text(<<"a", "=", "B", "#", "c", "\n", "b">>)
                 \o <<Close("code")>>),
            <<Ans(<<Open("code", {})>> \o Text(<<"a", "b">>) \o <<Close("code")>>
                  \o <<Open("p", {})>> \o Text(<<"b", "a">>) \o <<Close("p")>>)>>)
P2 == Entry(DictQ(<<Open("p", {})>> \o Text(<<"a", "b">>) \o <<Close("p")>>), <<>>)
P3 == Entry(StrQ(<<Open("p", {})>> \o Text(<<"b", "a", " ">>) \o <<Open("a", {"href"})>>
                 \o Text(<<"a", "b">>) \o <<Close("a"), Close("p")>>),
            <<Ans(<<Open("code", {})>> \o Text(<<"b", "/", "/", "c", "\n", "a", "b">>)
                  \o <<Close("code")>>), NotStrAns>>)
ValidEntries == {P1, P2, P3}
Elements ==
    ValidEntries
    \cup { NotADict, Entry(NoQ, <<>>), EntryNoAnswers(StrQ(<<Txt("a")>>)),
           EntryAnswersNotList(StrQ(<<Txt("a")>>)) }

\* a variant that accepts any answers member, array or not
validate_json_entry_any_answers(e) ==
    IF "question" \notin DOMAIN e THEN FALSE
    ELSE IF e.question.shape = "none" THEN FALSE
    ELSE IF ~ e.has_answers THEN FALSE
    ELSE TRUE

\* DataPreprocessor.validate_json_entry
validate_json_entry(e) ==
    IF "question" \notin DOMAIN e THEN FALSE                      \* not a dict
    ELSE IF e.question.shape = "none" THEN FALSE                  \* no 'question'
    ELSE IF ~ e.has_answers THEN FALSE                            \* no 'answers'
    ELSE IF "answers_type" \in DOMAIN e THEN FALSE                \* answers not a list
    ELSE TRUE

\* DataPreprocessor(max_vocab_size = ...): the default and two small sizes
VocabSizes == {1, 2, 50000}

\* process_file is called: json.loads has returned the array
InitPreprocess ==
    /\ pc = "parsed"
    /\ json_data \in SeqsUpTo(Elements, MaxData)
    /\ max_vocab_size \in VocabSizes
    /\ validated_data = <<>> /\ di = 1
    /\ processed_data = <<>> /\ code_vocabulary = <<>> /\ text_vocabulary = <<>>
    /\ bag_of_words_dataset = <<>>
    /\ HtmlIdle /\ VariantIdle /\ CombinerIdle /\ JsonIdle /\ CodeIdle
    /\ EscapeIdle /\ SplitIdle

\* one turn of load_json_safely's loop (lines 308-312)
ValidateEntry ==
    /\ pc = "parsed"
    /\ di <= Len(json_data)
    /\ validated_data' =
          IF validate_json_entry(json_data[di]) THEN Append(validated_data, json_data[di])
          ELSE validated_data
    /\ di' = di + 1
    /\ UNCHANGED <<pc, json_data, max_vocab_size, processed_data, code_vocabulary,
                   text_vocabulary, bag_of_words_dataset, htmlVars, variantVars,
                   combinerVars, jsonVars, codeVars, escapeVars, splitVars>>

\* raise ValueError("No valid entries found in the JSON file") (lines 314-315)
RaiseNoValidEntries ==
    /\ pc = "parsed"
    /\ di > Len(json_data)
    /\ validated_data = <<>>
    /\ pc' = "no_valid_entries"
    /\ UNCHANGED <<json_data, validated_data, di, max_vocab_size, processed_data,
                   code_vocabulary, text_vocabulary, bag_of_words_dataset, htmlVars,
                   variantVars, combinerVars, jsonVars, codeVars, escapeVars, splitVars>>

\* return validated_data (line 317): process_file goes on with it (line 351)
ReturnValidated ==
    /\ pc = "parsed"
    /\ di > Len(json_data)
    /\ validated_data # <<>>
    /\ pc' = "loaded"
    /\ di' = 1
    /\ UNCHANGED <<json_data, validated_data, max_vocab_size, processed_data,
                   code_vocabulary, text_vocabulary, bag_of_words_dataset, htmlVars,
                   variantVars, combinerVars, jsonVars, codeVars, escapeVars, splitVars>>

\* an object with a question member and an answers member that is an array
WellFormed(e) ==
    /\ e # NotADict
    /\ e.question # NoQ
    /\ e.has_answers
    /\ e # EntryAnswersNotList(e.question)

(***************************************************************************)
(* C11: after a successful parse load_json_safely returns exactly the      *)
(* elements of the array that are objects with a question member and an    *)
(* answers member that is an array, in their order; the other elements are *)
(* dropped and the loop goes on; the call fails with "no valid entries"    *)
(* when no element survives, and never returns an empty list.              *)
(***************************************************************************)
ValidEntriesReturned ==
    /\ pc = "parsed" =>
          validated_data = SelectSeq(SubSeq(json_data, 1, di - 1), WellFormed)
    /\ pc = "no_valid_entries" => SelectSeq(json_data, WellFormed) = <<>>
    /\ pc \notin {"parsed", "no_valid_entries"} =>
          /\ validated_data = SelectSeq(json_data, WellFormed)
          /\ validated_data # <<>>

\* an element whose answers are not an array was dropped, the loop went on and the
\* element after it was returned
ValidEntriesReturnedWitness ==
    /\ pc = "loaded"
    /\ Len(json_data) = 2
    /\ json_data[1] = EntryAnswersNotList(StrQ(<<Txt("a")>>))
    /\ validated_data = <<P3>>

(***************************************************************************)
(* DataPreprocessor's string functions.  A string is a sequence of tokens  *)
(* as above: the text of a code element is a sequence of text characters,  *)
(* the value of a question or an answer may hold tags as well.  A tag      *)
(* holds no backslash, so a two-character escape never spans one.  A       *)
(* character reference (&amp;) is one token.                               *)
(***************************************************************************)

\* str.replace(old, new) for a two-character old: leftmost matches, not overlapping
RECURSIVE replace_pair(_, _, _, _)
replace_pair(s, i, old, new) ==
    IF i > Len(s) THEN <<>>
    ELSE IF i < Len(s) /\ s[i] = Txt(old[1]) /\ s[i + 1] = Txt(old[2])
         THEN Text(new) \o replace_pair(s, i + 2, old, new)
         ELSE <<s[i]>> \o replace_pair(s, i + 1, old, new)

\* escape_mapping, in the order of the dict (lines 26-33)
escape_mapping ==
    << <<BS, QUOTE>>, <<BS, "n">>, <<BS, "t">>, <<BS, "r">>, <<BS, BS>>, <<BS, SLASH>> >>
unescaped_of ==
    << <<QUOTE>>, <<" ">>, <<" ">>, <<" ">>, <<BS>>, <<SLASH>> >>

\* for escaped, unescaped in escape_mapping.items(): text = text.replace(...)
RECURSIVE replace_each(_, _)
replace_each(s, k) ==
    IF k > Len(escape_mapping) THEN s
    ELSE replace_each(replace_pair(s, 1, escape_mapping[k], unescaped_of[k]), k + 1)

\* DataPreprocessor.unescape_json
unescape_json(s) == replace_each(s, 1)

\* DataPreprocessor.decode_html: html.unescape
decode_html(s) == [i \in DOMAIN s |-> IF s[i] = Txt("&amp;") THEN Txt("&") ELSE s[i]]

\* DataPreprocessor.clean_text on a string (lines 58-64)
clean_str(s) == strip(collapse_ws(decode_html(unescape_json(s))))

\* DataPreprocessor.clean_text on a question or an answer: '' for what is not a str
clean_text(value) ==
    IF "shape" \in DOMAIN value
    THEN (IF value.shape = "str" THEN clean_str(value.content) ELSE <<>>)
    ELSE (IF value.isstr THEN clean_str(value.html) ELSE <<>>)

\* clean_html of the question each record of the files came with
CleanedQuestionOf == [e \in RawEntries |-> clean_html(e.question.content)]
\* clean_text of the question of each record process_file emits
CleanTextOf == [e \in RawEntries |-> clean_text(ProcessedEntryOf[e].question)]

(***************************************************************************)
(* C12: every record the deduplicator keeps, whose question came as a bare *)
(* string or as a {content: string} wrapper, is emitted with its question  *)
(* as one string, the cleaned HTML of that content, and clean_text of the  *)
(* emitted question is clean_text of that cleaned HTML: the preprocessor   *)
(* gets the question content for both shapes.                              *)
(***************************************************************************)
QuestionResolvedToString ==
    \A k \in DOMAIN log :
        LET raw == log[k].entry
        IN FirstSeen(k) /\ raw.question.shape \in {"str", "dict"} =>
              /\ ProcessedEntryOf[raw].question = StrQ(CleanedQuestionOf[raw])
              /\ CleanTextOf[raw] = clean_str(CleanedQuestionOf[raw])

\* re \w for the characters of the model
WordChars ==
    {"a", "b", "c", "e", "m", "n", "o", "r", "t", "x", "y", "A", "B", "X", "Y",
     "0", "1", "2", "_"}
IsWord(tok) == tok.t = "text" /\ tok.name \in WordChars

\* the text s[i], s[i + 1], ... starts with the characters of marker
StartsAt(s, i, marker) ==
    /\ i + Len(marker) - 1 <= Len(s)
    /\ \A k \in DOMAIN marker : s[i + k - 1] = Txt(marker[k])

\* a variant whose '.' also matches a line break (re.DOTALL): to the end of the string
remove_to_end_of_string(s, i, marker) ==
    IF \E k \in i..Len(s) : StartsAt(s, k, marker)
    THEN SubSeq(s, i, (CHOOSE k \in i..Len(s) :
                          /\ StartsAt(s, k, marker)
                          /\ \A j \in i..(k - 1) : ~ StartsAt(s, j, marker)) - 1)
    ELSE SubSeq(s, i, Len(s))

\* re.sub(marker + r'.*$', '', s, flags=re.MULTILINE): from each marker to the end of
\* its line, the line break left in place
RECURSIVE skip_line(_, _), remove_line_comments(_, _, _)
skip_line(s, i) ==
    IF i > Len(s) \/ s[i] = Txt(NL) THEN i ELSE skip_line(s, i + 1)
remove_line_comments(s, i, marker) ==
    IF i > Len(s) THEN <<>>
    ELSE IF StartsAt(s, i, marker)
         THEN remove_line_comments(s, skip_line(s, i + Len(marker)), marker)
         ELSE <<s[i]>> \o remove_line_comments(s, i + 1, marker)

\* re.sub(r'/\*.*?\*/', '', s, flags=re.DOTALL): from each /* to the nearest */ after it
RECURSIVE find_close(_, _), remove_block_comments(_, _)
find_close(s, j) ==
    IF j > Len(s) THEN 0
    ELSE IF StartsAt(s, j, <<"*", SLASH>>) THEN j ELSE find_close(s, j + 1)
remove_block_comments(s, i) ==
    IF i > Len(s) THEN <<>>
    ELSE IF StartsAt(s, i, <<SLASH, "*">>) /\ find_close(s, i + 2) # 0
         THEN remove_block_comments(s, find_close(s, i + 2) + 2)
         ELSE <<s[i]>> \o remove_block_comments(s, i + 1)

\* re.sub(r'([^\w\s])', r' \1 ', s)
RECURSIVE space_out(_)
space_out(s) ==
    IF s = <<>> THEN <<>>
    ELSE (IF IsWord(s[1]) \/ IsWs(s[1]) THEN <<s[1]>> ELSE <<Txt(" "), s[1], Txt(" ")>>)
         \o space_out(Tail(s))

\* DataPreprocessor.preprocess_code
preprocess_code(c) ==
    LET unescaped_code == unescape_json(c)
        no_hash == remove_line_comments(unescaped_code, 1, <<"#">>)
        no_slashes == remove_line_comments(no_hash, 1, <<SLASH, SLASH>>)
        no_blocks == remove_block_comments(no_slashes, 1)
    IN strip(space_out(collapse_ws(no_blocks)))

\* re.sub(r'[^a-z0-9\s\.]', ' ', s)
blank_special(s) ==
    [i \in DOMAIN s |->
        IF s[i].t = "text" /\ s[i].name \in ((WordChars \ {"A", "B", "X", "Y", "_"})
                                               \cup Whitespace \cup {"."})
        THEN s[i] ELSE Txt(" ")]

\* DataPreprocessor.preprocess_text
preprocess_text(s) == strip(collapse_ws(blank_special(lower(unescape_json(s)))))

(***************************************************************************)
(* DataPreprocessor.extract_code_and_text.  An element of the tree is      *)
(* named by its path, the positions of its ancestors and of itself among   *)
(* their siblings.  decompose() leaves a destroyed object behind: it has   *)
(* no content, and it still separates the strings before and after it.     *)
(***************************************************************************)
Decomposed == [t |-> "decomposed", name |-> "", attrs |-> {}, kids |-> <<>>]

\* soup.find_all(names): the elements with one of the names, in document order
RECURSIVE find_all(_, _, _), find_all_kids(_, _, _, _)
find_all_kids(kids, i, path, names) ==
    IF i > Len(kids) THEN <<>>
    ELSE find_all(kids[i], Append(path, i), names) \o find_all_kids(kids, i + 1, path, names)
find_all(node, path, names) ==
    IF node.t # "tag" THEN <<>>
    ELSE (IF node.name \in names THEN <<path>> ELSE <<>>)
         \o find_all_kids(node.kids, 1, path, names)

\* the object a path of the parsed tree names now: the element, or what decompose()
\* has left of it
RECURSIVE NodeAt(_, _)
NodeAt(node, path) ==
    IF path = <<>> THEN node
    ELSE IF path[1] > Len(node.kids) THEN Decomposed
    ELSE NodeAt(node.kids[path[1]], Tail(path))

\* a variant that leaves the element in the tree
decompose_nothing(node, path) == node

\* element.decompose(), for the element at path
RECURSIVE decompose(_, _)
decompose(node, path) ==
    IF path = <<>> THEN Decomposed
    ELSE IF path[1] > Len(node.kids) THEN node
    ELSE [node EXCEPT !.kids[path[1]] = decompose(@, Tail(path))]

\* element._all_strings(): the strings under an element, in document order; adjacent
\* text characters are one string
RECURSIVE all_strings(_), all_strings_kids(_, _, _)
all_strings_kids(kids, i, run) ==
    IF i > Len(kids) THEN (IF run = <<>> THEN <<>> ELSE <<run>>)
    ELSE IF kids[i].t = "text"
         THEN all_strings_kids(kids, i + 1, Append(run, Txt(kids[i].name)))
         ELSE (IF run = <<>> THEN <<>> ELSE <<run>>) \o all_strings(kids[i])
              \o all_strings_kids(kids, i + 1, <<>>)
all_strings(node) ==
    IF node.t = "tag" THEN all_strings_kids(node.kids, 1, <<>>) ELSE <<>>

\* ''.join of the strings, each stripped
RECURSIVE join_stripped(_, _)
join_stripped(strings, i) ==
    IF i > Len(strings) THEN <<>>
    ELSE strip(strings[i]) \o join_stripped(strings, i + 1)

\* element.get_text(strip=True)
get_text_strip(node) == join_stripped(all_strings(node), 1)

\* for code in code_tags (lines 120-124): the soup and the code blocks after the loop
RECURSIVE extract_code(_, _, _, _)
extract_code(soup, code_tags, i, blocks) ==
    IF i > Len(code_tags) THEN [soup |-> soup, code_blocks |-> blocks]
    ELSE LET code_text == get_text_strip(NodeAt(soup, code_tags[i]))
         IN extract_code(decompose(soup, code_tags[i]), code_tags, i + 1,
                         IF code_text # <<>> THEN Append(blocks, code_text) ELSE blocks)

\* for text in text_links (lines 129-132)
RECURSIVE extract_text(_, _, _)
extract_text(soup, text_links, i) ==
    IF i > Len(text_links) THEN <<>>
    ELSE LET plain_text == get_text_strip(NodeAt(soup, text_links[i]))
         IN (IF plain_text # <<>> THEN <<plain_text>> ELSE <<>>)
            \o extract_text(soup, text_links, i + 1)

\* DataPreprocessor.extract_code_and_text
extract_code_and_text(html) ==
    LET soup == BeautifulSoup(html)
        coded == extract_code(soup, find_all(soup, <<>>, {"code"}), 1, <<>>)
    IN [code_blocks |-> coded.code_blocks,
        text_blocks |-> extract_text(coded.soup, find_all(coded.soup, <<>>, {"p", "a"}), 1)]

(***************************************************************************)
(* CountVectorizer.  A document is lower-cased and cut into tokens by the  *)
(* token pattern; fit keeps the terms of the corpus, the max_features most *)
(* frequent ones when there are more (ties broken in no specified way),    *)
(* and numbers them in sorted order; fit raises ValueError on a corpus     *)
(* with no token.  A vocabulary is the sequence of its terms in sorted     *)
(* order, a count vector a sequence of the same length.                    *)
(***************************************************************************)
Digits == {"0", "1", "2"}

\* the end of the run of \w characters, and of \S characters, that starts at i
RECURSIVE word_end(_, _), nonspace_end(_, _)
word_end(s, i) == IF i <= Len(s) /\ IsWord(s[i]) THEN word_end(s, i + 1) ELSE i
nonspace_end(s, i) == IF i <= Len(s) /\ ~ IsWs(s[i]) THEN nonspace_end(s, i + 1) ELSE i

\* re.findall(r'[A-Za-z_][A-Za-z0-9_]*|\S+', doc): code_vectoriser's token_pattern
RECURSIVE code_tokens(_, _)
code_tokens(s, i) ==
    IF i > Len(s) THEN <<>>
    ELSE IF IsWs(s[i]) THEN code_tokens(s, i + 1)
    ELSE LET j == IF IsWord(s[i]) /\ s[i].name \notin Digits THEN word_end(s, i)
                  ELSE nonspace_end(s, i)
         IN <<SubSeq(s, i, j - 1)>> \o code_tokens(s, j)

\* re.findall(r'(?u)\b\w\w+\b', doc): the default token_pattern
RECURSIVE text_tokens(_, _)
text_tokens(s, i) ==
    IF i > Len(s) THEN <<>>
    ELSE IF ~ IsWord(s[i]) THEN text_tokens(s, i + 1)
    ELSE LET j == word_end(s, i)
         IN (IF j - i >= 2 THEN <<SubSeq(s, i, j - 1)>> ELSE <<>>) \o text_tokens(s, j)

\* build_analyzer(): lowercase, then tokenize
analyze(doc, channel) ==
    IF channel = "code" THEN code_tokens(lower(doc), 1) ELSE text_tokens(lower(doc), 1)

\* the tokens of all documents of a list
RECURSIVE analyze_all(_, _, _)
analyze_all(docs, i, channel) ==
    IF i > Len(docs) THEN <<>>
    ELSE analyze(docs[i], channel) \o analyze_all(docs, i + 1, channel)

Count(term, toks) == Cardinality({i \in DOMAIN toks : toks[i] = term})

\* the characters in code point order
CharOrder ==
    <<"\t", "\n", "\r", " ", "\"", "#", "&", "*", ".", "/", "0", "1", "2", "=",
      "A", "B", "X", "Y", "\\", "_", "a", "b", "c", "e", "m", "n", "o", "r", "t",
      "x", "y">>
Rank(c) == CHOOSE i \in DOMAIN CharOrder : CharOrder[i] = c

\* u < v for two strings
RECURSIVE StrLess(_, _)
StrLess(u, v) ==
    IF v = <<>> THEN FALSE
    ELSE IF u = <<>> THEN TRUE
    ELSE IF u[1] = v[1] THEN StrLess(Tail(u), Tail(v))
    ELSE Rank(u[1].name) < Rank(v[1].name)

\* sorted(terms)
RECURSIVE Sorted(_)
Sorted(terms) ==
    IF terms = {} THEN <<>>
    ELSE LET least == CHOOSE u \in terms : \A v \in terms \ {u} : StrLess(u, v)
         IN <<least>> \o Sorted(terms \ {least})

\* vectoriser.fit(docs): the vocabularies it may end with; none when it raises
fit(docs, channel, max_features) ==
    LET toks == analyze_all(docs, 1, channel)
        terms == {toks[i] : i \in DOMAIN toks}
    IN IF Cardinality(terms) <= max_features THEN {Sorted(S) : S \in {terms} \ {{}}}
       ELSE {Sorted(S) : S \in {T \in SUBSET terms :
                                  /\ Cardinality(T) = max_features
                                  /\ \A u \in T, v \in terms \ T :
                                        Count(u, toks) >= Count(v, toks)}}

\* a variant that counts against the terms of the documents themselves
transform_own_terms(vocabulary, docs, channel) ==
    LET toks == analyze_all(docs, 1, channel)
        own == SelectSeq(vocabulary, LAMBDA term : Count(term, toks) > 0)
    IN [k \in DOMAIN own |-> Count(own[k], toks)]

\* vectoriser.transform(docs).toarray().sum(axis=0)
transform(vocabulary, docs, channel) ==
    LET toks == analyze_all(docs, 1, channel)
    IN [k \in DOMAIN vocabulary |-> Count(vocabulary[k], toks)]

\* np.zeros(n)
zeros(n) == [k \in 1..n |-> 0]

\* DataPreprocessor.transform_to_bag_of_words_data
encode(vocabulary, docs, channel) ==
    IF docs # <<>> THEN transform(vocabulary, docs, channel) ELSE zeros(Len(vocabulary))
transform_to_bag_of_words_data(pe, code_voc, text_voc) ==
    [question_code |-> encode(code_voc, pe.question_code, "code"),
     answer_code |-> encode(code_voc, pe.answer_code, "code"),
     question_text |-> encode(text_voc, pe.question_text, "text"),
     answer_text |-> encode(text_voc, pe.answer_text, "text")]

\* [self.preprocess_code(code) for code in code_blocks], and the same for text
preprocess_codes(blocks) == [i \in DOMAIN blocks |-> preprocess_code(blocks[i])]
preprocess_texts(blocks) == [i \in DOMAIN blocks |-> preprocess_text(blocks[i])]

\* for answer in entry['answers'] (lines 369-373)
RECURSIVE process_answers(_, _, _)
process_answers(answers, i, pe) ==
    IF i > Len(answers) THEN pe
    ELSE LET blocks == extract_code_and_text(clean_text(answers[i]))
         IN process_answers(answers, i + 1,
                [pe EXCEPT !.answer_code = @ \o preprocess_codes(blocks.code_blocks),
                           !.answer_text = @ \o preprocess_texts(blocks.text_blocks)])

\* one turn of process_file's loop (lines 355-375); a validated entry has both keys
process_entry(e) ==
    LET blocks == extract_code_and_text(clean_text(e.question))
    IN process_answers(e.answers, 1,
          [question_code |-> preprocess_codes(blocks.code_blocks),
           question_text |-> preprocess_texts(blocks.text_blocks),
           answer_code |-> <<>>, answer_text |-> <<>>])

\* process_entry tabulated over the entries the array can hold
ProcessedOf == [e \in ValidEntries |-> process_entry(e)]

\* all_code and all_text of create_vocabulary (lines 141-148)
RECURSIVE all_code(_, _), all_text(_, _)
all_code(pd, i) ==
    IF i > Len(pd) THEN <<>>
    ELSE pd[i].question_code \o pd[i].answer_code \o all_code(pd, i + 1)
all_text(pd, i) ==
    IF i > Len(pd) THEN <<>>
    ELSE pd[i].question_text \o pd[i].answer_text \o all_text(pd, i + 1)

\* one turn of process_file's loop over data (lines 355-375)
ProcessEntry ==
    /\ pc = "loaded"
    /\ di <= Len(validated_data)
    /\ processed_data' = Append(processed_data, ProcessedOf[validated_data[di]])
    /\ di' = di + 1
    /\ UNCHANGED <<pc, json_data, validated_data, max_vocab_size, code_vocabulary,
                   text_vocabulary, bag_of_words_dataset, htmlVars, variantVars,
                   combinerVars, jsonVars, codeVars, escapeVars, splitVars>>

\* self.create_vocabulary(processed_data) (line 378): both vectorisers are fitted
CreateVocabulary ==
    /\ pc = "loaded"
    /\ di > Len(validated_data)
    /\ code_vocabulary' \in fit(all_code(processed_data, 1), "code", max_vocab_size)
    /\ text_vocabulary' \in fit(all_text(processed_data, 1), "text", max_vocab_size)
    /\ pc' = "fitted"
    /\ di' = 1
    /\ UNCHANGED <<json_data, validated_data, max_vocab_size, processed_data,
                   bag_of_words_dataset, htmlVars, variantVars, combinerVars, jsonVars,
                   codeVars, escapeVars, splitVars>>

\* create_vocabulary raises: code_vectoriser.fit or, after it, text_vectoriser.fit
\* finds no token in the corpus (ValueError: empty vocabulary)
CreateVocabularyFails ==
    /\ pc = "loaded"
    /\ di > Len(validated_data)
    /\ LET code_fits == fit(all_code(processed_data, 1), "code", max_vocab_size)
           text_fits == fit(all_text(processed_data, 1), "text", max_vocab_size)
       IN /\ code_fits = {} \/ text_fits = {}
          /\ IF code_fits = {} THEN code_vocabulary' = code_vocabulary
             ELSE code_vocabulary' \in code_fits
    /\ pc' = "failed"
    /\ UNCHANGED <<json_data, validated_data, di, max_vocab_size, processed_data,
                   text_vocabulary, bag_of_words_dataset, htmlVars, variantVars,
                   combinerVars, jsonVars, codeVars, escapeVars, splitVars>>

\* one entry of the list comprehension of line 381
TransformEntry ==
    /\ pc = "fitted"
    /\ di <= Len(processed_data)
    /\ bag_of_words_dataset' =
          Append(bag_of_words_dataset,
                 transform_to_bag_of_words_data(processed_data[di], code_vocabulary,
                                                text_vocabulary))
    /\ di' = di + 1
    /\ UNCHANGED <<pc, json_data, validated_data, max_vocab_size, processed_data,
                   code_vocabulary, text_vocabulary, htmlVars, variantVars,
                   combinerVars, jsonVars, codeVars, escapeVars, splitVars>>

\* return bag_of_words_dataset (line 403)
ReturnDataset ==
    /\ pc = "fitted"
    /\ di > Len(processed_data)
    /\ pc' = "done"
    /\ UNCHANGED <<json_data, validated_data, di, max_vocab_size, processed_data,
                   code_vocabulary, text_vocabulary, bag_of_words_dataset, htmlVars,
                   variantVars, combinerVars, jsonVars, codeVars, escapeVars, splitVars>>

NextPreprocess ==
    \/ ValidateEntry \/ RaiseNoValidEntries \/ ReturnValidated
    \/ ProcessEntry \/ CreateVocabulary \/ CreateVocabularyFails
    \/ TransformEntry \/ ReturnDataset

SpecPreprocess == InitPreprocess /\ [][NextPreprocess]_vars

\* the terms of a fitted vocabulary are tokens of the corpus; all of them, or
\* max_vocab_size of them
FittedOver(vocabulary, docs, channel) ==
    LET toks == analyze_all(docs, 1, channel)
        terms == {toks[i] : i \in DOMAIN toks}
    IN /\ {vocabulary[k] : k \in DOMAIN vocabulary} \subseteq terms
       /\ Len(vocabulary) = IF Cardinality(terms) <= max_vocab_size
                            THEN Cardinality(terms) ELSE max_vocab_size
       /\ Len(vocabulary) > 0

AllZero(v) == \A k \in DOMAIN v : v[k] = 0

\* the k-th encoded entry has vectors of the lengths of the vocabularies, all zero
\* where the entry has no span
FixedWidth(k) ==
    LET bow == bag_of_words_dataset[k]
        pe == processed_data[k]
    IN /\ Len(bow.question_code) = Len(code_vocabulary)
       /\ Len(bow.answer_code) = Len(code_vocabulary)
       /\ Len(bow.question_text) = Len(text_vocabulary)
       /\ Len(bow.answer_text) = Len(text_vocabulary)
       /\ pe.question_code = <<>> => AllZero(bow.question_code)
       /\ pe.answer_code = <<>> => AllZero(bow.answer_code)
       /\ pe.question_text = <<>> => AllZero(bow.question_text)
       /\ pe.answer_text = <<>> => AllZero(bow.answer_text)

(***************************************************************************)
(* C13: when process_file encodes an entry, every entry has been processed *)
(* and both vocabularies have been fitted over the whole corpus; they do   *)
(* not change afterwards; every code vector has the length of the code     *)
(* vocabulary and every text vector the length of the text vocabulary; a   *)
(* role and channel with no span has an all-zero vector of that length.    *)
(***************************************************************************)
VocabularyFittedBeforeEncoding ==
    /\ [](bag_of_words_dataset # <<>> =>
            /\ Len(processed_data) = Len(validated_data)
            /\ FittedOver(code_vocabulary, all_code(processed_data, 1), "code")
            /\ FittedOver(text_vocabulary, all_text(processed_data, 1), "text")
            /\ \A k \in DOMAIN bag_of_words_dataset : FixedWidth(k))
    /\ [][bag_of_words_dataset' # <<>> =>
            /\ code_vocabulary' = code_vocabulary
            /\ text_vocabulary' = text_vocabulary]_vars

\* two entries encoded against a capped code vocabulary: the first has counts, the
\* second, with no span at all, four all-zero vectors
VocabularyFittedBeforeEncodingWitness ==
    /\ pc = "done"
    /\ validated_data = <<P1, P2>>
    /\ max_vocab_size = 2
    /\ Len(code_vocabulary) = 2 /\ Len(text_vocabulary) = 2
    /\ ~ AllZero(bag_of_words_dataset[1].question_code)
    /\ bag_of_words_dataset[2] =
          [question_code |-> <<0, 0>>, answer_code |-> <<0, 0>>,
           question_text |-> <<0, 0>>, answer_text |-> <<0, 0>>]

(***************************************************************************)
(* preprocess_code applied to one string: every string of at most          *)
(* MaxRawLen characters over RawCodeAlphabet, and the example of the       *)
(* specification.  The strings hold no backslash: they have no escape      *)
(* sequence for unescape_json to decode.                                   *)
(***************************************************************************)
MaxRawLen == 4

RawCodeAlphabet == {"#", SLASH, "*", NL, " ", "a", "B", "="}

\* "x=1  # comment\ny=2"
CommentExample ==
    Text(<<"x", "=", "1", " ", " ", "#", " ", "c", "o", "m", "m", "e", "n", "t", NL,
           "y", "=", "2">>)

RawCodeInputs ==
    {Text(chars) : chars \in SeqsUpTo(RawCodeAlphabet, MaxRawLen)} \cup {CommentExample}

InitNormalize ==
    /\ pc = "raw_code"
    /\ raw_code \in RawCodeInputs
    /\ processed_code = <<>>
    /\ escaped_text = <<>> /\ unescaped = <<>>
    /\ HtmlIdle /\ VariantIdle /\ CombinerIdle /\ JsonIdle /\ CodeIdle
    /\ SplitIdle /\ BowIdle

\* self.preprocess_code(code)
PreprocessCode ==
    /\ pc = "raw_code"
    /\ processed_code' = preprocess_code(raw_code)
    /\ pc' = "code_normalized"
    /\ UNCHANGED <<raw_code, escaped_text, unescaped, htmlVars, variantVars, combinerVars,
                   jsonVars, codeVars, splitVars, bowVars>>

NextNormalize == PreprocessCode

SpecNormalize == InitNormalize /\ [][NextNormalize]_vars

\* the lines of a string
RECURSIVE Lines(_, _)
Lines(s, line) ==
    IF s = <<>> THEN <<line>>
    ELSE IF s[1] = Txt(NL) THEN <<line>> \o Lines(Tail(s), <<>>)
    ELSE Lines(Tail(s), Append(line, s[1]))

\* a line up to the first marker in it
CutAt(line, marker) ==
    IF \E k \in DOMAIN line : StartsAt(line, k, marker)
    THEN SubSeq(line, 1, (CHOOSE k \in DOMAIN line :
                             /\ StartsAt(line, k, marker)
                             /\ \A j \in 1..(k - 1) : ~ StartsAt(line, j, marker)) - 1)
    ELSE line

\* the lines put together again, each without its # comment and its // comment
RECURSIVE Uncommented(_, _)
Uncommented(lines, i) ==
    IF i > Len(lines) THEN <<>>
    ELSE CutAt(CutAt(lines[i], <<"#">>), <<SLASH, SLASH>>)
         \o (IF i < Len(lines) THEN <<Txt(NL)>> ELSE <<>>) \o Uncommented(lines, i + 1)

\* the text outside the /* ... */ pairs, read from the left
RECURSIVE OutsideBlocks(_)
OutsideBlocks(s) ==
    IF s = <<>> THEN <<>>
    ELSE IF StartsAt(s, 1, <<SLASH, "*">>)
            /\ \E k \in 3..(Len(s) - 1) : StartsAt(s, k, <<"*", SLASH>>)
         THEN LET k == CHOOSE k \in 3..(Len(s) - 1) :
                          /\ StartsAt(s, k, <<"*", SLASH>>)
                          /\ \A j \in 3..(k - 1) : ~ StartsAt(s, j, <<"*", SLASH>>)
              IN OutsideBlocks(SubSeq(s, k + 2, Len(s)))
         ELSE <<s[1]>> \o OutsideBlocks(Tail(s))

\* the tokens of a text: the runs of letters, digits and underscores, and every other
\* character that is not whitespace on its own
RECURSIVE Tokens(_, _)
Tokens(s, word) ==
    LET flush == IF word = <<>> THEN <<>> ELSE <<word>>
    IN IF s = <<>> THEN flush
       ELSE IF IsWord(s[1]) THEN Tokens(Tail(s), Append(word, s[1].name))
       ELSE IF IsWs(s[1]) THEN flush \o Tokens(Tail(s), <<>>)
       ELSE flush \o <<<<s[1].name>>>> \o Tokens(Tail(s), <<>>)

\* str.split(): the chunks between whitespace
RECURSIVE Split(_, _)
Split(s, chunk) ==
    LET flush == IF chunk = <<>> THEN <<>> ELSE <<chunk>>
    IN IF s = <<>> THEN flush
       ELSE IF IsWs(s[1]) THEN flush \o Split(Tail(s), <<>>)
       ELSE Split(Tail(s), Append(chunk, s[1].name))

(***************************************************************************)
(* C14: the output of preprocess_code has, separated by spaces, exactly    *)
(* the tokens of the input with its comments taken out: on each line the   *)
(* text from a # and from a // to the end of that line (the line break and *)
(* the lines after it stay), then every /* ... */ pair; letters keep their *)
(* case; every character that is not a letter, digit, underscore or        *)
(* whitespace has a space (or an end of the string) on both sides; and     *)
(* "x=1  # comment\ny=2" gives x, =, 1, y, =, 2.                           *)
(***************************************************************************)
CommentsRemovedCodeKept ==
    pc = "code_normalized" =>
        /\ Split(processed_code, <<>>)
              = Tokens(OutsideBlocks(Uncommented(Lines(raw_code, <<>>), 1)), <<>>)
        /\ \A i \in DOMAIN processed_code :
              ~ IsWord(processed_code[i]) /\ ~ IsWs(processed_code[i]) =>
                  /\ i > 1 => processed_code[i - 1] = Txt(" ")
                  /\ i < Len(processed_code) => processed_code[i + 1] = Txt(" ")
        /\ raw_code = CommentExample =>
              Split(processed_code, <<>>)
                  = << <<"x">>, <<"=">>, <<"1">>, <<"y">>, <<"=">>, <<"2">> >>

\* the example: the comment is gone, the line after it is kept
CommentsRemovedCodeKeptWitness ==
    /\ pc = "code_normalized"
    /\ raw_code = CommentExample
    /\ processed_code = Text(<<"x", " ", "=", " ", "1", " ", "y", " ", "=", " ", "2">>)

(***************************************************************************)
(* extract_code_and_text applied to one HTML fragment: every string of at  *)
(* most MaxFragLen tokens over SplitAlphabet, and a longer document.       *)
(***************************************************************************)
MaxFragLen == 4

SplitAlphabet ==
    { Txt("x"), Txt(" "), Open("code", {}), Close("code"), Open("p", {}), Close("p"),
      Open("a", {"href"}) }

SplitSamples ==
    { <<Open("p", {}), Txt("x"), Txt(" "), Open("code", {}), Txt(" "), Txt("y"), Txt(" "),
        Open("code", {}), Txt("z"), Close("code"), Close("code"), Txt(" "), Txt("x"),
        Open("a", {"href"}), Txt("y"), Close("a"), Close("p"), Open("code", {}), Txt(" "),
        Close("code"), Open("p", {}), Open("code", {}), Txt("x"), Close("code"),
        Close("p")>> }

InitSplit ==
    /\ pc = "fragment"
    /\ fragment \in SeqsUpTo(SplitAlphabet, MaxFragLen) \cup SplitSamples
    /\ code_blocks = <<>> /\ text_blocks = <<>>
    /\ HtmlIdle /\ VariantIdle /\ CombinerIdle /\ JsonIdle /\ CodeIdle
    /\ EscapeIdle /\ BowIdle

\* code_blocks, text_blocks = self.extract_code_and_text(html_content)
ExtractCodeAndText ==
    /\ pc = "fragment"
    /\ LET blocks == extract_code_and_text(fragment)
       IN /\ code_blocks' = blocks.code_blocks
          /\ text_blocks' = blocks.text_blocks
    /\ pc' = "split"
    /\ UNCHANGED <<fragment, htmlVars, variantVars, combinerVars, jsonVars, codeVars,
                   escapeVars, bowVars>>

NextSplit == ExtractCodeAndText

SpecSplit == InitSplit /\ [][NextSplit]_vars

\* the element at path lies inside a code element (or is one)
InCode(soup, path) ==
    \E k \in 1..Len(path) : NodeAt(soup, SubSeq(path, 1, k)).name = "code"

\* the strings under an element, each trimmed, joined; those in an element named
\* in skip left out
RECURSIVE TrimmedKids(_, _, _, _)
TrimmedKids(kids, i, run, skip) ==
    IF i > Len(kids) THEN strip(run)
    ELSE IF kids[i].t = "text"
         THEN TrimmedKids(kids, i + 1, Append(run, Txt(kids[i].name)), skip)
         ELSE strip(run)
              \o (IF kids[i].name \in skip THEN <<>>
                  ELSE TrimmedKids(kids[i].kids, 1, <<>>, skip))
              \o TrimmedKids(kids, i + 1, <<>>, skip)
TrimmedText(node) == TrimmedKids(node.kids, 1, <<>>, {})
TrimmedTextOutsideCode(node) == TrimmedKids(node.kids, 1, <<>>, {"code"})

\* the trimmed text of every element of the list, in order, the empty ones left out
SpansOf(soup, paths, TextOf(_)) ==
    SelectSeq([i \in DOMAIN paths |-> TextOf(NodeAt(soup, paths[i]))],
              LAMBDA span : span # <<>>)

(***************************************************************************)
(* C15 as stated: extract_code_and_text returns, in document order, the    *)
(* trimmed text of each code element whose trimmed text is not empty, and  *)
(* the trimmed text of each p or a element that is not in a code element,  *)
(* taken outside code elements, when it is not empty: no text of a code    *)
(* element is in a text span and no span is the empty string.              *)
(***************************************************************************)
SpanPerElement ==
    pc = "split" =>
        LET soup == BeautifulSoup(fragment)
            code_tags == find_all(soup, <<>>, {"code"})
            text_links == SelectSeq(find_all(soup, <<>>, {"p", "a"}),
                                    LAMBDA path : ~ InCode(soup, path))
        IN /\ code_blocks = SpansOf(soup, code_tags, TrimmedText)
           /\ text_blocks = SpansOf(soup, text_links, TrimmedTextOutsideCode)
           /\ \A i \in DOMAIN code_blocks : code_blocks[i] # <<>>
           /\ \A i \in DOMAIN text_blocks : text_blocks[i] # <<>>

(***************************************************************************)
(* C15, amended: the code spans are the trimmed texts of the code elements *)
(* that are in no other code element (the text of a nested code element is *)
(* part of the span of the outermost one and gets no span of its own); the *)
(* rest as stated.                                                         *)
(***************************************************************************)
SpanPerOutermostElement ==
    pc = "split" =>
        LET soup == BeautifulSoup(fragment)
            code_tags == SelectSeq(find_all(soup, <<>>, {"code"}),
                                   LAMBDA path : ~ InCode(soup, Front(path)))
            text_links == SelectSeq(find_all(soup, <<>>, {"p", "a"}),
                                    LAMBDA path : ~ InCode(soup, path))
        IN /\ code_blocks = SpansOf(soup, code_tags, TrimmedText)
           /\ text_blocks = SpansOf(soup, text_links, TrimmedTextOutsideCode)
           /\ \A i \in DOMAIN code_blocks : code_blocks[i] # <<>>
           /\ \A i \in DOMAIN text_blocks : text_blocks[i] # <<>>

\* the longer document: a code element in a code element in a paragraph, a code
\* element of whitespace, a paragraph holding only a code element
SpanPerOutermostElementWitness ==
    /\ pc = "split"
    /\ fragment \in SplitSamples
    /\ code_blocks = <<Text(<<"y", "z">>), Text(<<"x">>)>>
    /\ text_blocks = <<Text(<<"x", "x", "y">>), Text(<<"y">>)>>

(***************************************************************************)
(* unescape_json applied to one string: every string of at most MaxEscLen  *)
(* characters over EscapeAlphabet.                                         *)
(***************************************************************************)
MaxEscLen == 4

EscapeAlphabet == {BS, QUOTE, SLASH, "n", "t", "r", "a"}

InitUnescape ==
    /\ pc = "escaped"
    /\ escaped_text \in {Text(chars) : chars \in SeqsUpTo(EscapeAlphabet, MaxEscLen)}
    /\ unescaped = <<>>
    /\ raw_code = <<>> /\ processed_code = <<>>
    /\ HtmlIdle /\ VariantIdle /\ CombinerIdle /\ JsonIdle /\ CodeIdle
    /\ SplitIdle /\ BowIdle

\* text = self.unescape_json(text)
UnescapeJson ==
    /\ pc = "escaped"
    /\ unescaped' = unescape_json(escaped_text)
    /\ pc' = "unescaped"
    /\ UNCHANGED <<escaped_text, raw_code, processed_code, htmlVars, variantVars,
                   combinerVars, jsonVars, codeVars, splitVars, bowVars>>

NextUnescape == UnescapeJson

SpecUnescape == InitUnescape /\ [][NextUnescape]_vars

\* the escape sequences of a string decoded one by one from the left
RECURSIVE DecodedLeftToRight(_, _)
DecodedLeftToRight(s, i) ==
    IF i > Len(s) THEN <<>>
    ELSE IF i < Len(s) /\ s[i] = Txt(BS) /\ s[i + 1].name \in {"n", "t", "r"}
         THEN <<Txt(" ")>> \o DecodedLeftToRight(s, i + 2)
    ELSE IF i < Len(s) /\ s[i] = Txt(BS) /\ s[i + 1].name \in {QUOTE, BS, SLASH}
         THEN <<s[i + 1]>> \o DecodedLeftToRight(s, i + 2)
    ELSE <<s[i]>> \o DecodedLeftToRight(s, i + 1)

(***************************************************************************)
(* C16: unescape_json gives its input with the escape sequences decoded    *)
(* one by one from left to right: \n, \t and \r become a space, \", \\ and *)
(* \/ the quote, the backslash and the slash; so an escaped backslash      *)
(* followed by n, t, r, a quote or a slash gives a backslash followed by   *)
(* that character.                                                         *)
(***************************************************************************)
UnescapeLeftToRight ==
    pc = "unescaped" => unescaped = DecodedLeftToRight(escaped_text, 1)

\* a line holds a # or a //
HasLineComment(line) ==
    \E k \in DOMAIN line : StartsAt(line, k, <<"#">>) \/ StartsAt(line, k, <<SLASH, SLASH>>)

\* the tokens of the code strings of an entry
RECURSIVE CodeTokens(_, _)
CodeTokens(codes, i) ==
    IF i > Len(codes) THEN {}
    ELSE LET toks == Split(codes[i], <<>>)
         IN {toks[k] : k \in DOMAIN toks} \cup CodeTokens(codes, i + 1)

\* for every code element of the HTML and every line of it that holds a # or //
\* comment, the tokens of the code on the lines after it are among the tokens of codes
KeptAfterComment(html, codes) ==
    LET soup == BeautifulSoup(html)
        code_tags == find_all(soup, <<>>, {"code"})
    IN \A c \in DOMAIN code_tags :
          LET lines == Lines(get_text(NodeAt(soup, code_tags[c])), <<>>)
          IN \A i \in 1..(Len(lines) - 1) :
                HasLineComment(lines[i]) =>
                    LET rest == [j \in 1..(Len(lines) - i) |-> lines[i + j]]
                        toks == Tokens(OutsideBlocks(Uncommented(rest, 1)), <<>>)
                    IN {toks[k] : k \in DOMAIN toks} \subseteq CodeTokens(codes, 1)

(***************************************************************************)
(* C17: in process_file, when a code element of a question or of an answer *)
(* has a # or // comment followed by a line break and more code, the       *)
(* tokens of the code on the following lines are in the entry's            *)
(* question_code, respectively answer_code, strings.                       *)
(***************************************************************************)
CodeAfterCommentKept ==
    \A k \in DOMAIN processed_data :
        LET e == validated_data[k]
        IN /\ e.question.shape = "str" =>
                KeptAfterComment(e.question.content, processed_data[k].question_code)
           /\ \A a \in DOMAIN e.answers :
                e.answers[a].isstr =>
                    KeptAfterComment(e.answers[a].html, processed_data[k].answer_code)

(***************************************************************************)
(* combine_files called more than once on one JSONCombiner: the object's   *)
(* hash_set, duplicate_indices and unique_entries are set in __init__ only *)
(* (lines 9-12), total_entries and original_counts in every call.          *)
(***************************************************************************)
MaxCalls == 2

\* JSONCombiner() and the files on disk
InitRecall ==
    /\ pc = "idle"
    /\ files \in [Paths -> SeqsUpTo({R1, R3}, MaxEntries)]
    /\ Len(files["f2"]) <= 1
    /\ duplicate_indices = <<>> /\ unique_entries = <<>> /\ hash_set = {}
    /\ file_paths = <<>> /\ fi = 0
    /\ processed_entries = <<>> /\ total_entries = 0 /\ original_counts = <<>>
    /\ stats = <<>> /\ log = <<>> /\ calls = 0
    /\ HtmlIdle /\ VariantIdle /\ JsonIdle /\ CodeIdle /\ PrepIdle

\* combine_files(file_paths, output_path) is called on an object that has returned
\* from an earlier call (lines 138-139)
CombineFilesAgain ==
    /\ pc = "done"
    /\ calls < MaxCalls
    /\ \E fps \in SeqsUpTo(Paths, MaxFiles) :
          /\ fps # <<>>
          /\ file_paths' = fps
    /\ fi' = 1
    /\ total_entries' = 0
    /\ original_counts' = <<>>
    /\ calls' = calls + 1
    /\ pc' = "combining"
    /\ UNCHANGED <<files, duplicate_indices, unique_entries, hash_set, processed_entries,
                   stats, log, htmlVars, variantVars, jsonVars, codeVars, prepVars>>

NextRecall == CombineFiles \/ CombineFilesAgain \/ ProcessFile \/ ReturnStats

SpecRecall == InitRecall /\ [][NextRecall]_vars

\* combine_files(fps, output_path) on a JSONCombiner just constructed: the object's
\* fields and the call's counters after the loop
RECURSIVE fresh_combine(_, _, _)
fresh_combine(fps, i, acc) ==
    IF i > Len(fps) THEN acc
    ELSE LET done == process_entries([hash_set |-> acc.hash_set,
                                      duplicate_indices |-> acc.duplicate_indices,
                                      processed_entries |-> <<>>],
                                     files[fps[i]], 1, fps[i])
             entries == done.processed_entries
         IN fresh_combine(fps, i + 1,
                [hash_set |-> done.hash_set,
                 duplicate_indices |-> done.duplicate_indices,
                 unique_entries |-> acc.unique_entries \o entries,
                 total_entries |-> acc.total_entries + Len(entries),
                 original_counts |->
                     [f \in DOMAIN acc.original_counts \cup {fps[i]} |->
                         IF f = fps[i] THEN Len(entries) ELSE acc.original_counts[f]]])

OnFreshInstance(fps) ==
    fresh_combine(fps, 1, [hash_set |-> {}, duplicate_indices |-> <<>>,
                           unique_entries |-> <<>>, total_entries |-> 0,
                           original_counts |-> <<>>])

(***************************************************************************)
(* C18: every call of combine_files on a JSONCombiner, the first or a      *)
(* later one, leaves the unique entries and returns the statistics that    *)
(* the same call on a fresh instance gives, and in the statistics          *)
(* unique_entries <= total_original_entries and duplicates_removed >= 0.   *)
(***************************************************************************)
ScopedToOneCall ==
    pc = "done" =>
        LET fresh == OnFreshInstance(file_paths)
        IN /\ unique_entries = fresh.unique_entries
           /\ stats = [original_file_counts |-> fresh.original_counts,
                       total_original_entries |-> fresh.total_entries,
                       unique_entries |-> Len(fresh.unique_entries),
                       duplicates_removed |->
                           fresh.total_entries - Len(fresh.unique_entries),
                       duplicate_indices |-> fresh.duplicate_indices]
           /\ stats.unique_entries <= stats.total_original_entries
           /\ stats.duplicates_removed >= 0

====
